---- MODULE Spec2Model ----
(***************************************************************************)
(* Azure DevOps pull-request adapter of kargo-render.                      *)
(*                                                                         *)
(* Two variants of OpenPR are modelled:                                    *)
(*   "resolver"  internal/azuredevops/azuredevops.go: credential check,    *)
(*               parseAzureDevOpsURL, git.NewClient, getRepositoryID,      *)
(*               ensureRefFormat, CreatePullRequest by repository ID;      *)
(*   "inline"    the older OpenPR (unnamed/part_000): inline URL parse,    *)
(*               git.NewClient, ensureRefFormat, CreatePullRequest by      *)
(*               repository name.                                          *)
(* Strings are TLA+ strings; the Go string functions are modelled by what  *)
(* they compute.  One invocation of OpenPR is one behaviour: Init draws    *)
(* the arguments, every outbound call draws its outcome.                   *)
(***************************************************************************)
EXTENDS Naturals, Sequences, FiniteSets, TLC

VARIABLES
    variant,        \* which OpenPR is running: "resolver" or "inline"
    repoURL,        \* argument repoURL
    title,          \* argument title
    password,       \* creds.Password
    sourceBranch,   \* argument sourceBranch
    targetBranch,   \* argument targetBranch
    pc,             \* position of the invocation
    steps,          \* steps of OpenPR executed so far, in order
    parseErr,       \* err of the URL parse
    sourceRefName,  \* sourceBranch after ensureRefFormat, as submitted
    targetRefName,  \* targetBranch after ensureRefFormat, as submitted
    organization,   \* locals set by the URL parse
    project,
    repository,
    listing,        \* what GetRepositories returned (resolver variant)
    repoUUID,       \* what getRepositoryID returned: [id, err]
    calls,          \* outbound calls issued so far, in order
    ret             \* what OpenPR returned: [url, err]

vars == <<variant, repoURL, title, password, sourceBranch, targetBranch, pc,
          steps, parseErr, sourceRefName, targetRefName, organization,
          project, repository, listing, repoUUID, calls, ret>>

(***************************************************************************)
(* Bounds of the model.                                                    *)
(***************************************************************************)
\* longest path (in segments) of a generated repository URL
MaxSegs == 4
\* longest repository list GetRepositories answers with
MaxRepos == 2

(***************************************************************************)
(* Go values.                                                              *)
(***************************************************************************)
\* the nil error
NoErr == "<nil>"
\* the nil *uuid.UUID
NilId == "<nil-uuid>"
\* the nil *string of a repository's Name
NilName == "<nil-name>"
\* the nil *string of a pull request's Url (or a nil pull request)
NilUrl == "<nil-url>"

(***************************************************************************)
(* package strings                                                         *)
(***************************************************************************)
HasPrefix(s, prefix) ==
    /\ Len(s) >= Len(prefix)
    /\ SubSeq(s, 1, Len(prefix)) = prefix

HasSuffix(s, suffix) ==
    /\ Len(s) >= Len(suffix)
    /\ SubSeq(s, Len(s) - Len(suffix) + 1, Len(s)) = suffix

TrimPrefix(s, prefix) ==
    IF HasPrefix(s, prefix) THEN SubSeq(s, Len(prefix) + 1, Len(s)) ELSE s

TrimSuffix(s, suffix) ==
    IF HasSuffix(s, suffix) THEN SubSeq(s, 1, Len(s) - Len(suffix)) ELSE s

\* the positions at which substr occurs in s
Occurrences(s, substr) ==
    {i \in 1..(Len(s) + 1) :
        /\ i + Len(substr) - 1 <= Len(s)
        /\ SubSeq(s, i, i + Len(substr) - 1) = substr}

Contains(s, substr) == Occurrences(s, substr) # {}

\* position of the first occurrence of substr in s (0: none)
Index(s, substr) ==
    IF Occurrences(s, substr) = {} THEN 0
    ELSE CHOOSE i \in Occurrences(s, substr) :
             \A j \in Occurrences(s, substr) : i <= j

RECURSIVE Split(_, _)
\* strings.Split for a non-empty separator: always at least one element
Split(s, sep) ==
    IF Index(s, sep) = 0 THEN <<s>>
    ELSE <<SubSeq(s, 1, Index(s, sep) - 1)>>
         \o Split(SubSeq(s, Index(s, sep) + Len(sep), Len(s)), sep)

(***************************************************************************)
(* URL parsing                                                             *)
(***************************************************************************)
ErrInvalidURL == "invalid Azure DevOps repository URL format"
ErrUnsupportedURL == "unsupported Azure DevOps repository URL format"
ErrNoPAT == "Azure DevOps requires a Personal Access Token (PAT) as password"

ParseOk(org, proj, repo) ==
    [kind |-> "ok", org |-> org, proj |-> proj, repo |-> repo, err |-> NoErr]
ParseErr(e) ==
    [kind |-> "err", org |-> "", proj |-> "", repo |-> "", err |-> e]
\* index out of range: the goroutine panics, nothing is returned
ParsePanic ==
    [kind |-> "panic", org |-> "", proj |-> "", repo |-> "", err |-> NoErr]

\* mutant: the .git suffix of the repository segment is kept
parseDevAzure_Mut(repoURL_) ==
    LET urlParts == Split(TrimPrefix(repoURL_, "https://dev.azure.com/"), "/")
    IN  IF Len(urlParts) < 4 THEN ParseErr(ErrInvalidURL)
        ELSE ParseOk(urlParts[1], urlParts[2], urlParts[4])

\* Go slices are indexed from 0: urlParts[k] is parts[k + 1]
parseDevAzure(repoURL_) ==
    LET urlParts == Split(TrimPrefix(repoURL_, "https://dev.azure.com/"), "/")
    IN  IF Len(urlParts) < 4 THEN ParseErr(ErrInvalidURL)
        ELSE ParseOk(urlParts[1], urlParts[2], TrimSuffix(urlParts[4], ".git"))

\* mutant: the repository is read from urlParts[4], the segment before it
parseVisualStudio_Mut(repoURL_) ==
    LET urlParts == Split(repoURL_, "/")
    IN  IF Len(urlParts) < 5 THEN ParseErr(ErrInvalidURL)
        ELSE ParseOk(Split(urlParts[3], ".")[1], urlParts[4],
                     TrimSuffix(urlParts[5], ".git"))

\* urlParts[5] is read after a check for 5 elements only: with exactly 5
\* the index is out of range
parseVisualStudio(repoURL_) ==
    LET urlParts == Split(repoURL_, "/")
    IN  IF Len(urlParts) < 5 THEN ParseErr(ErrInvalidURL)
        ELSE IF Len(urlParts) < 6 THEN ParsePanic
        ELSE ParseOk(Split(urlParts[3], ".")[1], urlParts[4],
                     TrimSuffix(urlParts[6], ".git"))

parseAzureDevOpsURL(repoURL_) ==
    IF Contains(repoURL_, "dev.azure.com") THEN parseDevAzure(repoURL_)
    ELSE IF Contains(repoURL_, ".visualstudio.com") THEN parseVisualStudio(repoURL_)
    ELSE ParseErr(ErrUnsupportedURL)

\* the parse inlined in the older OpenPR: no host check at all
parseInline(repoURL_) ==
    LET urlParts == Split(TrimPrefix(repoURL_, "https://dev.azure.com/"), "/")
    IN  IF Len(urlParts) < 4 THEN ParseErr(ErrInvalidURL)
        ELSE ParseOk(urlParts[1], urlParts[2], TrimSuffix(urlParts[4], ".git"))

(***************************************************************************)
(* Ref normalization                                                       *)
(***************************************************************************)
\* mutant: the prefix is added without looking at the branch name
ensureRefFormat_Mut(branchName) == "refs/heads/" \o branchName

ensureRefFormat(branchName) ==
    IF ~HasPrefix(branchName, "refs/heads/")
    THEN "refs/heads/" \o TrimPrefix(branchName, "refs/heads/")
    ELSE branchName

\* mutant: the prefix is stripped and never added
ensureRefFormatInline_Mut(branchName) == TrimPrefix(branchName, "refs/heads/")

ensureRefFormatInline(branchName) ==
    IF ~HasPrefix(branchName, "refs/heads/")
    THEN "refs/heads/" \o TrimPrefix(branchName, "refs/heads/")
    ELSE branchName

(***************************************************************************)
(* Repository resolver                                                     *)
(***************************************************************************)
FoundID(id) == [kind |-> "ok", id |-> id, err |-> NoErr]
LookupErr(e) == [kind |-> "err", id |-> NilId, err |-> e]
\* *repo.Name with a nil Name: nil pointer dereference, nothing is returned
LookupPanic == [kind |-> "panic", id |-> NilId, err |-> NoErr]

RECURSIVE scanRepos(_, _, _, _)
\* the loop over *repos from entry i on: every entry's Name is dereferenced
\* and compared until one is equal; the Id is returned as it is (nil included)
scanRepos(repos, i, project_, repository_) ==
    IF i > Len(repos)
    THEN LookupErr("repository '" \o repository_ \o "' not found in project '"
                   \o project_ \o "'")
    ELSE IF repos[i].Name = NilName THEN LookupPanic
    ELSE IF repos[i].Name = repository_ THEN FoundID(repos[i].Id)
    ELSE scanRepos(repos, i + 1, project_, repository_)

\* ls: what client.GetRepositories returned, [err, isNil, repos]
getRepositoryID(ls, project_, repository_) ==
    IF ls.err # NoErr
    THEN LookupErr("error listing repositories: " \o ls.err)
    ELSE IF ~ls.isNil THEN scanRepos(ls.repos, 1, project_, repository_)
    ELSE LookupErr("repository '" \o repository_ \o "' not found in project '"
                   \o project_ \o "'")

(***************************************************************************)
(* Inputs and outcomes the model draws from.                               *)
(***************************************************************************)
Min(a, b) == IF a < b THEN a ELSE b

RECURSIVE JoinPath(_)
JoinPath(segs) ==
    IF Len(segs) = 0 THEN ""
    ELSE IF Len(segs) = 1 THEN segs[1]
    ELSE segs[1] \o "/" \o JoinPath(Tail(segs))

Orgs == {"myorg", "a.b"}
Projs == {"myproj"}
RepoSegs == {"myrepo", "myrepo.git", "myrepo.git.git"}

\* URL text up to and including the slash before the organization segment
OrgPrefixes == {"https://dev.azure.com/", "http://dev.azure.com/",
                "https://user@dev.azure.com/", "https://github.com/", ""}
\* scheme of a {org}.visualstudio.com URL
VsSchemes == {"https://", ""}

Take(s, n) == SubSeq(s, 1, Min(n, Len(s)))

OrgPathURLs ==
    {pre \o JoinPath(Take(<<o, p, "_git", r, "extra">>, n)) :
        pre \in OrgPrefixes, o \in Orgs, p \in Projs, r \in RepoSegs,
        n \in 0..MaxSegs}

VsURLs ==
    {sch \o o \o ".visualstudio.com/"
         \o JoinPath(Take(<<p, "_git", r, "extra">>, n)) :
        sch \in VsSchemes, o \in Orgs, p \in Projs, r \in RepoSegs,
        n \in 0..(MaxSegs - 1)}

URLs == OrgPathURLs \cup VsURLs

Passwords == {"", "pat"}
Titles == {"Sync"}
SourceBranches == {"", "render", "refs/heads/render",
                   "refs/heads/refs/heads/render"}
TargetBranches == {"main", "refs/heads/main"}

\* errors an outbound call can fail with (the second: ctx was cancelled)
CallErrs == {"TF401019: unauthorized", "context canceled"}

RepoNames == {"myrepo", "MyRepo"}
RepoIds == {"uuid-1", "uuid-2"}
\* git.GitRepository: Name and Id are pointers, either may be nil
RepoEntries == [Name : RepoNames \cup {NilName}, Id : RepoIds \cup {NilId}]
RepoLists == UNION {[1..n -> RepoEntries] : n \in 0..MaxRepos}

NoListing == [err |-> NoErr, isNil |-> TRUE, repos |-> <<>>]
Listings ==
    {[err |-> e, isNil |-> TRUE, repos |-> <<>>] : e \in CallErrs}
    \cup {NoListing}
    \cup {[err |-> NoErr, isNil |-> FALSE, repos |-> l] : l \in RepoLists}

PRUrls == {"https://dev.azure.com/myorg/_apis/git/pullRequests/1"}
\* what pr.Url can be when CreatePullRequest answers without error
PRAnswers == PRUrls \cup {NilUrl}

NoRet == [url |-> "", err |-> NoErr]
NoUUID == [id |-> NilId, err |-> NoErr]

(***************************************************************************)
(* One invocation of OpenPR.                                               *)
(***************************************************************************)
Init ==
    /\ variant \in {"resolver", "inline"}
    /\ repoURL \in URLs
    /\ title \in Titles
    /\ password \in Passwords
    /\ sourceBranch \in SourceBranches
    /\ targetBranch \in TargetBranches
    /\ pc = IF variant = "resolver" THEN "creds" ELSE "parse"
    /\ steps = <<>>
    /\ parseErr = NoErr
    /\ sourceRefName = ""
    /\ targetRefName = ""
    /\ organization = ""
    /\ project = ""
    /\ repository = ""
    /\ listing = NoListing
    /\ repoUUID = NoUUID
    /\ calls = <<>>
    /\ ret = NoRet

Return(url, err) ==
    /\ pc' = "done"
    /\ ret' = [url |-> url, err |-> err]

\* the parse step of either variant, given what the parse computed
ParseStep(parsed) ==
    /\ organization' = parsed.org
    /\ project' = parsed.proj
    /\ repository' = parsed.repo
    /\ parseErr' = parsed.err
    /\ steps' = Append(steps, "parse")
    /\ IF parsed.kind = "ok" THEN pc' = "client" /\ ret' = ret
       ELSE IF parsed.kind = "err" THEN Return("", parsed.err)
       ELSE pc' = "panic" /\ ret' = ret
    /\ UNCHANGED <<variant, repoURL, title, password, sourceBranch,
                   targetBranch, sourceRefName, targetRefName, listing,
                   repoUUID, calls>>

\* git.NewClient of either variant, with its outcome e
ClientStep(e, next) ==
    /\ steps' = Append(steps, "NewClient")
    /\ calls' = Append(calls, [op |-> "NewClient",
                               url |-> "https://dev.azure.com/" \o organization,
                               pat |-> password])
    /\ IF e # NoErr
       THEN Return("", "error creating Azure DevOps Git client: " \o e)
       ELSE pc' = next /\ ret' = ret
    /\ UNCHANGED <<variant, repoURL, title, password, sourceBranch,
                   targetBranch, parseErr, sourceRefName, targetRefName,
                   organization, project, repository, listing, repoUUID>>

\* the end of either variant: what CreatePullRequest answered
\* *pr.Url with a nil Url: nil pointer dereference, nothing is returned
PRResult(e, url) ==
    IF e # NoErr THEN Return("", "error creating pull request: " \o e)
    ELSE IF url = NilUrl THEN pc' = "panic" /\ ret' = ret
    ELSE Return(url, NoErr)

\* mutant: the credential check is skipped
missingPAT_Mut(pw) == FALSE

missingPAT(pw) == pw = ""

CheckCredentials ==
    /\ variant = "resolver" /\ pc = "creds"
    /\ steps' = Append(steps, "creds")
    /\ IF missingPAT(password) THEN Return("", ErrNoPAT)
       ELSE pc' = "parse" /\ ret' = ret
    /\ UNCHANGED <<variant, repoURL, title, password, sourceBranch,
                   targetBranch, parseErr, sourceRefName, targetRefName,
                   organization, project, repository, listing, repoUUID,
                   calls>>

ParseURL ==
    /\ variant = "resolver" /\ pc = "parse"
    /\ ParseStep(parseAzureDevOpsURL(repoURL))

NewClient ==
    /\ variant = "resolver" /\ pc = "client"
    /\ \E e \in CallErrs \cup {NoErr} : ClientStep(e, "resolve")

GetRepositoryID ==
    /\ variant = "resolver" /\ pc = "resolve"
    /\ steps' = Append(steps, "GetRepositories")
    /\ \E ls \in Listings :
        /\ listing' = ls
        /\ calls' = Append(calls, [op |-> "GetRepositories", project |-> project])
        /\ LET got == getRepositoryID(ls, project, repository)
           IN  IF got.kind = "panic"
               THEN pc' = "panic" /\ ret' = ret /\ repoUUID' = repoUUID
               ELSE /\ repoUUID' = [id |-> got.id, err |-> got.err]
                    /\ IF got.err # NoErr THEN Return("", got.err)
                       ELSE pc' = "create" /\ ret' = ret
    /\ UNCHANGED <<variant, repoURL, title, password, sourceBranch,
                   targetBranch, parseErr, sourceRefName, targetRefName,
                   organization, project, repository>>

CreatePullRequest ==
    /\ variant = "resolver" /\ pc = "create"
    /\ steps' = Append(steps, "CreatePullRequest")
    /\ sourceRefName' = ensureRefFormat(sourceBranch)
    /\ targetRefName' = ensureRefFormat(targetBranch)
    /\ calls' = Append(calls, [op |-> "CreatePullRequest",
                               project |-> project,
                               repositoryId |-> repoUUID.id,
                               title |-> title,
                               sourceRefName |-> sourceRefName',
                               targetRefName |-> targetRefName'])
    /\ \E e \in CallErrs \cup {NoErr}, url \in PRAnswers : PRResult(e, url)
    /\ UNCHANGED <<variant, repoURL, title, password, sourceBranch,
                   targetBranch, parseErr, organization, project, repository,
                   listing, repoUUID>>

InlineParseURL ==
    /\ variant = "inline" /\ pc = "parse"
    /\ ParseStep(parseInline(repoURL))

InlineNewClient ==
    /\ variant = "inline" /\ pc = "client"
    /\ \E e \in CallErrs \cup {NoErr} : ClientStep(e, "create")

InlineCreatePullRequest ==
    /\ variant = "inline" /\ pc = "create"
    /\ steps' = Append(steps, "CreatePullRequest")
    /\ sourceRefName' = ensureRefFormatInline(sourceBranch)
    /\ targetRefName' = ensureRefFormatInline(targetBranch)
    /\ calls' = Append(calls, [op |-> "CreatePullRequest",
                               project |-> project,
                               repositoryName |-> repository,
                               title |-> title,
                               sourceRefName |-> sourceRefName',
                               targetRefName |-> targetRefName'])
    /\ \E e \in CallErrs \cup {NoErr}, url \in PRAnswers : PRResult(e, url)
    /\ UNCHANGED <<variant, repoURL, title, password, sourceBranch,
                   targetBranch, parseErr, organization, project, repository,
                   listing, repoUUID>>

Next ==
    \/ CheckCredentials
    \/ ParseURL
    \/ NewClient
    \/ GetRepositoryID
    \/ CreatePullRequest
    \/ InlineParseURL
    \/ InlineNewClient
    \/ InlineCreatePullRequest

Spec == Init /\ [][Next]_vars

(***************************************************************************)
(* Properties.                                                             *)
(***************************************************************************)
Ran(step) == \E i \in 1..Len(steps) : steps[i] = step

\* the invocation ended in a panic raised by the given step
PanickedIn(step) ==
    pc = "panic" /\ Len(steps) > 0 /\ steps[Len(steps)] = step

\* the URL parse has run and produced (org, proj, repo) without error
ParsedAs(org, proj, repo) ==
    /\ Ran("parse")
    /\ ~PanickedIn("parse")
    /\ parseErr = NoErr
    /\ organization = org
    /\ project = proj
    /\ repository = repo

\* the URL parse has run and OpenPR returned its error, before any call
ParseFailedWith(e) ==
    /\ Ran("parse")
    /\ parseErr = e
    /\ pc = "done"
    /\ ret = [url |-> "", err |-> e]
    /\ calls = <<>>

DevAzureURL(o, p, r) ==
    "https://dev.azure.com/" \o o \o "/" \o p \o "/_git/" \o r

VisualStudioURL(o, p, r) ==
    "https://" \o o \o ".visualstudio.com/" \o p \o "/_git/" \o r

\* C1: in the credential-checking variant an empty password makes OpenPR
\* return the PAT error at once: the check is the only step that ever runs
\* and no outbound call is issued, whatever the URL, branches and title.
C1_EmptyPasswordNoCall ==
    (variant = "resolver" /\ password = "") =>
        /\ calls = <<>>
        /\ pc \in {"creds", "done"}
        /\ (pc = "done" => steps = <<"creds">>
                           /\ ret = [url |-> "", err |-> ErrNoPAT])

C1_Witness ==
    /\ variant = "resolver" /\ password = ""
    /\ repoURL = "https://dev.azure.com/myorg/myproj/_git/myrepo"
    /\ pc = "done" /\ ret.err = ErrNoPAT /\ calls = <<>>

\* C2: https://dev.azure.com/{o}/{p}/_git/{r} and .../{r}.git parse, in both
\* variants, to exactly (o, p, r): one .git suffix is stripped.
C2_DevAzureParse ==
    \A o \in Orgs, p \in Projs, r \in RepoSegs :
        Ran("parse") =>
            /\ (repoURL = DevAzureURL(o, p, r \o ".git") => ParsedAs(o, p, r))
            /\ (repoURL = DevAzureURL(o, p, r) /\ ~HasSuffix(r, ".git")
                    => ParsedAs(o, p, r))

C2_Witness ==
    /\ variant = "inline"
    /\ repoURL = "https://dev.azure.com/myorg/myproj/_git/myrepo.git"
    /\ ParsedAs("myorg", "myproj", "myrepo")

\* C3: https://{o}.visualstudio.com/{p}/_git/{r}[.git] parses (resolver
\* variant) to the subdomain before the first '.', segment 3 and segment 5
\* with one .git suffix stripped: (o, p, r) when o has no '.' in it.
C3_VisualStudioParse ==
    \A o \in Orgs, p \in Projs, r \in RepoSegs :
        (/\ variant = "resolver" /\ Ran("parse")
         /\ \/ repoURL = VisualStudioURL(o, p, r \o ".git")
            \/ repoURL = VisualStudioURL(o, p, r) /\ ~HasSuffix(r, ".git"))
        => /\ ParsedAs(organization, p, r)
           /\ HasPrefix(o \o ".", organization \o ".")
           /\ ~Contains(organization, ".")
           /\ (~Contains(o, ".") => organization = o)

C3_Witness ==
    /\ variant = "resolver"
    /\ repoURL = "https://myorg.visualstudio.com/myproj/_git/myrepo.git"
    /\ ParsedAs("myorg", "myproj", "myrepo")

\* C4 (as claimed): a URL containing neither dev.azure.com nor
\* .visualstudio.com fails to parse in both variants, and OpenPR returns the
\* error without any outbound call.
C4_OtherHostFails ==
    (/\ ~Contains(repoURL, "dev.azure.com")
     /\ ~Contains(repoURL, ".visualstudio.com")
     /\ Ran("parse"))
    => \E e \in {ErrInvalidURL, ErrUnsupportedURL} : ParseFailedWith(e)

\* number of '/'-separated path segments after the dev.azure.com host
PathSegsAfterHost(url) ==
    LET rest == SubSeq(url, Index(url, "dev.azure.com") + Len("dev.azure.com"),
                       Len(url))
        path == TrimPrefix(rest, "/")
    IN  IF path = "" THEN 0 ELSE Len(Split(path, "/"))

\* C5 (as claimed): a URL containing dev.azure.com with fewer than 4 path
\* segments after the host fails with the invalid-format error, whatever
\* precedes the host.
C5_ShortDevAzureFails ==
    (/\ Contains(repoURL, "dev.azure.com")
     /\ PathSegsAfterHost(repoURL) < 4
     /\ Ran("parse"))
    => ParseFailedWith(ErrInvalidURL)

\* C6 (as claimed): parseAzureDevOpsURL always ends with a triple or an error
\* value, never with an out-of-range access, and a .visualstudio.com URL with
\* no segment 5 gets the invalid-format error.
C6_VisualStudioShortFails ==
    /\ ~PanickedIn("parse")
    /\ (/\ variant = "resolver" /\ Ran("parse")
        /\ ~Contains(repoURL, "dev.azure.com")
        /\ Contains(repoURL, ".visualstudio.com")
        /\ Len(Split(repoURL, "/")) < 6)
       => ParseFailedWith(ErrInvalidURL)

\* the ref normalizer of the running variant
Normalize(x) ==
    IF variant = "resolver" THEN ensureRefFormat(x) ELSE ensureRefFormatInline(x)

\* C7: normalizing a normalized ref changes nothing: the refs OpenPR submits
\* are fixed points of ensureRefFormat, for every branch name given.
C7_Idempotent ==
    Ran("CreatePullRequest") =>
        /\ Normalize(sourceRefName) = sourceRefName
        /\ Normalize(targetRefName) = targetRefName

C7_Witness ==
    /\ Ran("CreatePullRequest")
    /\ sourceBranch = "refs/heads/refs/heads/render"
    /\ targetBranch = "main"
    /\ targetRefName = "refs/heads/main"
    /\ Normalize(targetRefName) = "refs/heads/main"

PrefixOnce(ref) ==
    /\ HasPrefix(ref, "refs/heads/")
    /\ ~HasPrefix(TrimPrefix(ref, "refs/heads/"), "refs/heads/")

\* C8 (as claimed): every submitted ref carries refs/heads/ exactly once.
C8_PrefixExactlyOnce ==
    Ran("CreatePullRequest") =>
        PrefixOnce(sourceRefName) /\ PrefixOnce(targetRefName)

NormalizedFrom(branch, ref) ==
    /\ HasPrefix(ref, "refs/heads/")
    /\ (HasPrefix(branch, "refs/heads/") => ref = branch)
    /\ (~HasPrefix(branch, "refs/heads/") => ref = "refs/heads/" \o branch)
    /\ (~HasPrefix(branch, "refs/heads/refs/heads/") => PrefixOnce(ref))

\* C8 (amended): every submitted ref starts with refs/heads/; a branch name
\* that already starts with the prefix is submitted unchanged, any other gets
\* the prefix put in front; so the prefix is carried exactly once unless the
\* branch name given already began with it twice.
C8_PrefixAdded ==
    Ran("CreatePullRequest") =>
        /\ NormalizedFrom(sourceBranch, sourceRefName)
        /\ NormalizedFrom(targetBranch, targetRefName)
        /\ calls[Len(calls)].sourceRefName = sourceRefName
        /\ calls[Len(calls)].targetRefName = targetRefName

C8_Witness ==
    /\ Ran("CreatePullRequest")
    /\ sourceBranch = "render" /\ sourceRefName = "refs/heads/render"
    /\ targetBranch = "refs/heads/main" /\ targetRefName = "refs/heads/main"

ResolverSteps ==
    <<"creds", "parse", "NewClient", "GetRepositories", "CreatePullRequest">>

\* C9 (as claimed): every invocation of the resolver variant runs a prefix of
\* creds, parse, NewClient, GetRepositories, CreatePullRequest, each once;
\* it always ends by returning: a failure as ("", error) with no later call,
\* a success as the URL answered by the one CreatePullRequest, which is
\* issued for the ID of a listed repository of the wanted name.
C9_LinearFlow ==
    variant = "resolver" =>
        /\ pc # "panic"
        /\ Len(steps) <= Len(ResolverSteps)
        /\ steps = SubSeq(ResolverSteps, 1, Len(steps))
        /\ Len(calls) = (IF Len(steps) > 2 THEN Len(steps) - 2 ELSE 0)
        /\ \A i \in 1..Len(calls) : calls[i].op = steps[i + 2]
        /\ (pc = "done" /\ ret.err # NoErr => ret.url = "")
        /\ (pc = "done" /\ ret.err = NoErr =>
                Ran("CreatePullRequest") /\ ret.url \in PRUrls)
        /\ (pc # "done" => ret = NoRet)
        /\ (Ran("CreatePullRequest") =>
                /\ pc = "done"
                /\ \E i \in 1..Len(listing.repos) :
                       /\ listing.repos[i].Name = repository
                       /\ listing.repos[i].Id = calls[3].repositoryId)

\* C10 (as claimed): for every outcome of the listing call getRepositoryID
\* returns: the wrapped listing error and no ID when the listing fails;
\* otherwise the ID of the first listed repository whose name equals the
\* wanted one; and with a nil or empty list or no equal name, no ID and a
\* 'not found' error that names the repository and the project.
C10_RepositoryID ==
    Ran("GetRepositories") =>
        /\ ~PanickedIn("GetRepositories")
        /\ IF listing.err # NoErr
           THEN repoUUID = [id |-> NilId,
                            err |-> "error listing repositories: "
                                    \o listing.err]
           ELSE IF \E i \in 1..Len(listing.repos) :
                       listing.repos[i].Name = repository
           THEN /\ repoUUID.err = NoErr
                /\ \E i \in 1..Len(listing.repos) :
                       /\ listing.repos[i].Name = repository
                       /\ \A j \in 1..(i - 1) :
                              listing.repos[j].Name # repository
                       /\ repoUUID.id = listing.repos[i].Id
           ELSE /\ repoUUID.id = NilId
                /\ Contains(repoUUID.err, "not found")
                /\ Contains(repoUUID.err, "'" \o repository \o "'")
                /\ Contains(repoUUID.err, "'" \o project \o "'")

====
